---- MODULE Spec2Model ----
(***************************************************************************)
(* A model of the subeth gateway (Ethereum JSON-RPC in front of a          *)
(* Substrate chain) and of its counterpart pallet.  One module, several    *)
(* specifications, each over its own group of variables:                   *)
(*   SpecCache    the BlockCache object and its public operations          *)
(*   SpecGateway  concurrent get_block_by_number/get_block_by_hash calls    *)
(*                over the cache and a backend that reorganises            *)
(*   SpecPallet   the runtime executing the pallet's transact extrinsic    *)
(*   SpecSig      EthereumTransaction::signature() and the two hashes over *)
(*                a range of v and of access lists                         *)
(*   SpecWrite    transaction submission, from the gateway to the runtime  *)
(*   SpecSub      an eth_subscribe subscription and its forwarding task    *)
(*   SpecRead     the reads that keep no state: the pallet/address         *)
(*                mapping, eth_getCode, eth_call (both crates' versions)   *)
(*                and the conversion of a backend block                    *)
(***************************************************************************)
EXTENDS Integers, Sequences, FiniteSets, TLC

VARIABLES
    cache,      \* BlockCacheInner: order, number_to_hash, hash_to_block, max_blocks
    inserted,   \* history: blocks passed to insert_block since construction / clear
    plain,      \* history: TRUE while only insert_block of fresh blocks was called
    numSrc,     \* history: number -> block whose insert_block last wrote the mapping
    chain,      \* backend: height -> Option(hash the backend reports for it)
    finalized,  \* backend: height of the latest finalized block
    known,      \* backend: hashes of the blocks the backend stores
    hs,         \* one record per concurrent RPC handler (position and locals)
    balances,   \* runtime: AccountId -> free balance (absent = 0)
    exec,       \* runtime: the latest execution of transact (and the balances before)
    pool,       \* node: the extrinsics author_submitExtrinsic accepted, in order
    wr,         \* gateway: the write call in progress (position and locals)
    sub,        \* gateway: the subscription (its task, stream and sink)
    sigTx,      \* the transaction signature() is applied to
    sigRes,     \* what signature() returned for it
    rd          \* gateway: the latest stateless read (its request and answer)

cacheVars == <<cache, inserted, plain, numSrc>>
backendVars == <<chain, finalized, known>>
gwVars == <<backendVars, hs>>
palletVars == <<balances, exec>>
writeVars == <<pool, wr>>
subVars == <<sub>>
sigVars == <<sigTx, sigRes, rd>>

\* what the gateway's read path never touches
extVars == <<palletVars, writeVars, subVars, sigVars>>
\* what the cache operations never touch
notCacheVars == <<gwVars, extVars>>
\* what the runtime never touches
notPalletVars == <<cacheVars, gwVars, writeVars, subVars, sigVars>>

vars == <<cacheVars, gwVars, extVars>>

(***************************************************************************)
(* Bounds of the model.                                                    *)
(***************************************************************************)
MaxCap == 2         \* capacities 0..MaxCap are tried for with_capacity
MaxNumber == 3      \* block numbers (heights) are 1..MaxNumber
MaxHeight == 2      \* the backend's chain has heights 1..MaxHeight
MaxTx == 1          \* transactions executed in one behaviour
MaxKeys == 3        \* keys of an eth_call storage request
MaxExt == 2         \* extrinsics of a block of the backend
MaxReplay == 2      \* later executions of a transaction executed before
MaxV == 300         \* signature() is tried on v in 0..MaxV
MaxPool == 2        \* extrinsics the node's pool holds
MaxStream == 3      \* items the backend puts on a subscription's stream
MaxNameLen == 9     \* chars of a pallet name

(***************************************************************************)
(* Option<T>, and HashMap<K, V> as a function over the keys present.       *)
(***************************************************************************)
None == <<>>
Some(x) == <<x>>
IsSome(o) == Len(o) = 1
Unwrap(o) == o[1]

EmptyMap == [k \in {} |-> k]
MapGet(m, k) == IF k \in DOMAIN m THEN Some(m[k]) ELSE None
MapInsert(m, k, v) == [x \in (DOMAIN m) \cup {k} |-> IF x = k THEN v ELSE m[x]]
MapRemove(m, k) == [x \in (DOMAIN m) \ {k} |-> m[x]]
MapRetainValueNot(m, v) == [x \in {k \in DOMAIN m : m[k] # v} |-> m[x]]

(***************************************************************************)
(* Blocks.  A hash identifies one block, so the hash fixes the number;     *)
(* several hashes share a number (competing blocks of one height).         *)
(***************************************************************************)
Numbers == 1..MaxNumber
Hashes == 1..(2 * MaxNumber)
NumberOf(h) == ((h - 1) \div 2) + 1
EthBlock(h) == [hash |-> h, number |-> NumberOf(h)]
Blocks == {EthBlock(h) : h \in Hashes}

(***************************************************************************)
(* BlockCache (cache.rs).  Every operation takes the lock once, so each    *)
(* is one atomic function of the inner state.                              *)
(***************************************************************************)
with_capacity(max_blocks) ==
    [order |-> <<>>, number_to_hash |-> EmptyMap, hash_to_block |-> EmptyMap,
     max_blocks |-> max_blocks]

insert_number_to_hash(inner, number, hash) ==
    [inner EXCEPT !.number_to_hash = MapInsert(@, number, hash)]

\* variant: the eviction forgets the block map
EvictOldestFromQueue(inner) ==
    IF Len(inner.order) >= inner.max_blocks /\ inner.order # <<>>
    THEN [inner EXCEPT !.order = Tail(@)]
    ELSE inner

\* the eviction step of insert_block: pop the oldest hash when at capacity
EvictOldest(inner) ==
    IF Len(inner.order) >= inner.max_blocks /\ inner.order # <<>>
    THEN LET old_hash == Head(inner.order)
         IN  [inner EXCEPT !.order = Tail(@),
                           !.hash_to_block = MapRemove(@, old_hash),
                           !.number_to_hash = MapRetainValueNot(@, old_hash)]
    ELSE inner

\* variant: nothing is evicted
insert_block_unbounded(inner, block) ==
    [inner EXCEPT !.number_to_hash = MapInsert(@, block.number, block.hash),
                  !.hash_to_block = MapInsert(@, block.hash, block),
                  !.order = Append(@, block.hash)]

insert_block(inner, block) ==
    LET e == EvictOldest(inner)
    IN  [e EXCEPT !.number_to_hash = MapInsert(@, block.number, block.hash),
                  !.hash_to_block = MapInsert(@, block.hash, block),
                  !.order = Append(@, block.hash)]

get_by_number(inner, number) ==
    LET h == MapGet(inner.number_to_hash, number)
    IN  IF IsSome(h) THEN MapGet(inner.hash_to_block, Unwrap(h)) ELSE None

get_by_hash(inner, hash) == MapGet(inner.hash_to_block, hash)

get_hash_by_number(inner, number) == MapGet(inner.number_to_hash, number)

clear(inner) ==
    [inner EXCEPT !.order = <<>>, !.number_to_hash = EmptyMap,
                  !.hash_to_block = EmptyMap]

(***************************************************************************)
(* SpecCache: the cache driven through its public operations.              *)
(***************************************************************************)
\* the hash insert_block is about to evict, if any
EvictedBy(inner) ==
    IF Len(inner.order) >= inner.max_blocks /\ inner.order # <<>>
    THEN {Head(inner.order)} ELSE {}

\* the gateway is not running
IdleGateway ==
    /\ chain = <<>>
    /\ finalized = 0
    /\ known = {}
    /\ hs = <<>>

\* the runtime executes nothing
IdlePallet ==
    /\ balances = EmptyMap
    /\ exec = <<>>

\* nothing is submitted
IdleWrite ==
    /\ pool = <<>>
    /\ wr = <<>>

\* nobody subscribes
IdleSub == sub = <<>>

\* signature() is not exercised
IdleSig ==
    /\ sigTx = <<>>
    /\ sigRes = <<>>
    /\ rd = <<>>

IdleExt == IdlePallet /\ IdleWrite /\ IdleSub /\ IdleSig

InitCache ==
    /\ \E c \in 0..MaxCap : cache = with_capacity(c)
    /\ inserted = <<>>
    /\ plain = TRUE
    /\ numSrc = EmptyMap
    /\ IdleGateway
    /\ IdleExt

InsertBlock(block) ==
    /\ UNCHANGED notCacheVars
    /\ cache' = insert_block(cache, block)
    /\ LET fresh == \A i \in 1..Len(inserted) :
                       /\ inserted[i].hash # block.hash
                       /\ inserted[i].number # block.number
       IN  /\ plain' = (plain /\ fresh)
           /\ inserted' = IF plain /\ fresh THEN Append(inserted, block) ELSE <<>>
    /\ numSrc' = LET kept == [n \in {k \in DOMAIN numSrc :
                                        numSrc[k].hash \notin EvictedBy(cache)}
                                 |-> numSrc[n]]
                 IN  MapInsert(kept, block.number, block)

InsertNumberToHash(number, hash) ==
    /\ UNCHANGED notCacheVars
    /\ cache' = insert_number_to_hash(cache, number, hash)
    /\ plain' = FALSE
    /\ inserted' = <<>>
    /\ numSrc' = IF number \in DOMAIN numSrc /\ numSrc[number].hash = hash
                 THEN numSrc ELSE MapRemove(numSrc, number)

Clear ==
    /\ UNCHANGED notCacheVars
    /\ cache' = clear(cache)
    /\ inserted' = <<>>
    /\ plain' = TRUE
    /\ numSrc' = EmptyMap

NextCache ==
    \/ \E block \in Blocks : InsertBlock(block)
    \/ \E number \in Numbers, hash \in Hashes : InsertNumberToHash(number, hash)
    \/ Clear

SpecCache == InitCache /\ [][NextCache]_vars

(***************************************************************************)
(* The backend (ChainBackend): an opaque Substrate node.  The block stored *)
(* under a hash never changes; the hash reported for a height that is not  *)
(* finalized may change (a reorganisation), and the finalized head moves   *)
(* forward.  Height 1 is finalized from the start.                         *)
(***************************************************************************)
Handlers == {"h1", "h2"}    \* concurrent RPC handlers sharing one client
Heights == 1..MaxHeight
ChainHashes == 1..(2 * MaxHeight)

\* a handler is free before its first call and after a call returned
Free(h) == h.pc \in {"idle", "done"}
Running(h) == ~Free(h)

\* the node imports block `hash` at its height, replacing what it reported there
BackendImport(hash) ==
    LET n == NumberOf(hash)
    IN  /\ n > finalized
        /\ IsSome(chain[n - 1])
        /\ chain[n] # Some(hash)
        /\ chain' = [k \in Heights |-> IF k = n THEN Some(hash)
                                       ELSE IF k > n THEN None ELSE chain[k]]
        /\ known' = known \cup {hash}
        /\ hs' = [p \in Handlers |->
                    IF hs[p].kind = "number" /\ hs[p].n >= n
                    THEN [hs[p] EXCEPT !.stable = FALSE]
                    ELSE hs[p]]
        /\ UNCHANGED <<finalized, cacheVars, extVars>>

BackendFinalize ==
    /\ finalized < MaxHeight
    /\ IsSome(chain[finalized + 1])
    /\ finalized' = finalized + 1
    /\ UNCHANGED <<chain, known, hs, cacheVars, extVars>>

(***************************************************************************)
(* SubLightClient (adapter/src/sub_client.rs): get_block_by_number and     *)
(* get_block_by_hash, one step per cache operation (one lock acquisition)  *)
(* or backend reply (one await).                                           *)
(***************************************************************************)
Ok(v) == [tag |-> "Ok", val |-> v]
Err == [tag |-> "Err", val |-> None]    \* a request to the backend failed
\* the backend answered: it has no block of that hash (BlockError::NotFound)
ErrNotFound == [tag |-> "Err", val |-> Some("NotFound")]
Cancelled == [tag |-> "Cancelled", val |-> None]
NoResult == [tag |-> "none", val |-> None]

\* pc "idle": no call yet; pc "done": the call returned ret, and the record
\* keeps the request (kind, n or hash) it answered.  stable (history): the
\* backend has reported one and the same hash for height n since the call began.
\* partial (history): the call changed the cache and has not succeeded
IdleHandler ==
    [pc |-> "idle", kind |-> "none", n |-> 0, hash |-> 0, stable |-> TRUE,
     ret |-> NoResult, partial |-> FALSE]

\* the call of handler p returns r
Return(p, r) ==
    hs' = [hs EXCEPT ![p].pc = "done", ![p].ret = r,
                     ![p].hash = IF hs[p].kind = "hash" THEN @ ELSE 0,
                     ![p].partial = IF r.tag = "Ok" THEN FALSE ELSE @]

Goto(p, pc) == hs' = [hs EXCEPT ![p].pc = pc]

AwaitPcs == {"await_number", "await_latest", "await_hash", "await_block",
             "await_convert"}

\* a request arrives: the handler starts with its first cache read or request
CallBlockByNumber(p, n) ==
    /\ Free(hs[p])
    /\ hs' = [hs EXCEPT ![p] = [IdleHandler EXCEPT !.pc = "hash_by_number",
                                  !.kind = "number", !.n = n]]
    /\ UNCHANGED <<backendVars, cacheVars, extVars>>

CallBlockByLatest(p) ==
    /\ Free(hs[p])
    /\ hs' = [hs EXCEPT ![p] = [IdleHandler EXCEPT !.pc = "await_number",
                                  !.kind = "latest"]]
    /\ UNCHANGED <<backendVars, cacheVars, extVars>>

CallBlockByHash(p, hash) ==
    /\ Free(hs[p])
    /\ hs' = [hs EXCEPT ![p] = [IdleHandler EXCEPT !.pc = "by_hash",
                                  !.kind = "hash", !.hash = hash]]
    /\ UNCHANGED <<backendVars, cacheVars, extVars>>

\* Latest: block_number() replies with the number of the latest block
LatestNumber(p) ==
    /\ hs[p].pc = "await_number"
    /\ \/ Return(p, Err)
       \/ hs' = [hs EXCEPT ![p].pc = "by_number", ![p].n = finalized]
    /\ UNCHANGED <<backendVars, cacheVars, extVars>>

\* Latest: cache.get_by_number(current_block_number)
LatestByNumber(p) ==
    /\ hs[p].pc = "by_number"
    /\ LET r == get_by_number(cache, hs[p].n)
       IN  IF IsSome(r) THEN Return(p, Ok(r)) ELSE Goto(p, "await_latest")
    /\ UNCHANGED <<backendVars, cacheVars, extVars>>

\* Latest: blocks().at_latest() replies with the block that is latest now
LatestBlock(p) ==
    /\ hs[p].pc = "await_latest"
    /\ \/ Return(p, Err)
       \/ hs' = [hs EXCEPT ![p].pc = "await_convert",
                           ![p].hash = Unwrap(chain[finalized])]
    /\ UNCHANGED <<backendVars, cacheVars, extVars>>

\* Number(n): cache.get_hash_by_number(n), else ask the backend
HashByNumber(p) ==
    /\ hs[p].pc = "hash_by_number"
    /\ LET r == get_hash_by_number(cache, hs[p].n)
       IN  IF IsSome(r)
           THEN hs' = [hs EXCEPT ![p].pc = "number_to_hash", ![p].hash = Unwrap(r)]
                 ELSE Goto(p, "await_hash")
    /\ UNCHANGED <<backendVars, cacheVars, extVars>>

\* Number(n): the reply to chain_getBlockHash(n)
BlockHashReply(p) ==
    /\ hs[p].pc = "await_hash"
    /\ \/ Return(p, Err)
       \/ /\ chain[hs[p].n] = None
          /\ Return(p, Ok(None))
       \/ /\ IsSome(chain[hs[p].n])
          /\ hs' = [hs EXCEPT ![p].pc = "number_to_hash",
                              ![p].hash = Unwrap(chain[hs[p].n])]
    /\ UNCHANGED <<backendVars, cacheVars, extVars>>

\* Number(n): cache.insert_number_to_hash(n, hash)
NumberToHash(p) ==
    /\ hs[p].pc = "number_to_hash"
    /\ cache' = insert_number_to_hash(cache, hs[p].n, hs[p].hash)
    /\ hs' = [hs EXCEPT ![p].pc = "by_hash", ![p].partial = (cache' # cache)]
    /\ UNCHANGED <<backendVars, inserted, plain, numSrc, extVars>>

\* variant: the block is fetched without a look at the cache
ByHashFetch(p) ==
    /\ hs[p].pc = "by_hash"
    /\ Goto(p, "await_block")
    /\ UNCHANGED <<backendVars, cacheVars, extVars>>

\* Number(n) and get_block_by_hash: cache.get_by_hash(hash)
ByHash(p) ==
    /\ hs[p].pc = "by_hash"
    /\ LET r == get_by_hash(cache, hs[p].hash)
       IN  IF IsSome(r)
           THEN Return(p, Ok(r))
           ELSE Goto(p, "await_block")
    /\ UNCHANGED <<backendVars, cacheVars, extVars>>

\* the reply to blocks().at(hash)
BlockReply(p) ==
    /\ hs[p].pc = "await_block"
    /\ \/ Return(p, Err)
       \/ /\ hs[p].hash \notin known
          /\ Return(p, ErrNotFound)
       \/ /\ hs[p].hash \in known
          /\ hs' = [hs EXCEPT ![p].pc = "await_convert"]
    /\ UNCHANGED <<backendVars, cacheVars, extVars>>

\* convert_block finishes (its extrinsics fetch replied); on success the
\* translated block is inserted and returned
ConvertAndInsert(p) ==
    /\ hs[p].pc = "await_convert"
    /\ \/ /\ Return(p, Err)
          /\ UNCHANGED cacheVars
       \/ /\ cache' = insert_block(cache, EthBlock(hs[p].hash))
          /\ Return(p, Ok(Some(EthBlock(hs[p].hash))))
          /\ UNCHANGED <<inserted, plain, numSrc>>
    /\ UNCHANGED <<backendVars, extVars>>

\* the handler's future is dropped while it waits for the backend
Cancel(p) ==
    /\ hs[p].pc \in AwaitPcs
    /\ Return(p, Cancelled)
    /\ UNCHANGED <<backendVars, cacheVars, extVars>>

InitGateway ==
    /\ \E c \in {1, 2} : cache = with_capacity(c)
    /\ inserted = <<>>
    /\ plain = FALSE
    /\ numSrc = EmptyMap
    /\ chain = [k \in Heights |-> IF k = 1 THEN Some(1) ELSE None]
    /\ finalized = 1
    /\ known = {1}
    /\ hs = [p \in Handlers |-> IdleHandler]
    /\ IdleExt

NextGateway ==
    \/ \E hash \in ChainHashes : BackendImport(hash)
    \/ BackendFinalize
    \/ \E p \in Handlers :
          \/ \E n \in Heights : CallBlockByNumber(p, n)
          \/ CallBlockByLatest(p)
          \/ \E hash \in ChainHashes : CallBlockByHash(p, hash)
          \/ LatestNumber(p)
          \/ LatestByNumber(p)
          \/ LatestBlock(p)
          \/ HashByNumber(p)
          \/ BlockHashReply(p)
          \/ NumberToHash(p)
          \/ ByHash(p)
          \/ BlockReply(p)
          \/ ConvertAndInsert(p)
          \/ Cancel(p)

SpecGateway == InitGateway /\ [][NextGateway]_vars

(***************************************************************************)
(* Bytes.  A byte string is a sequence of 0..255.  The hash functions are  *)
(* modelled symbolically: a digest is a record that holds its preimage, so *)
(* distinct inputs have distinct digests.                                  *)
(***************************************************************************)
Min(a, b) == IF a < b THEN a ELSE b
Repeat(b, n) == [i \in 1..n |-> b]
Take(s, n) == SubSeq(s, 1, Min(n, Len(s)))
PadRight(s, n) == [i \in 1..n |-> IF i <= Len(s) THEN s[i] ELSE 0]

keccak_256(bytes) == [keccak_256 |-> bytes]

\* x >> (8 * k)
RECURSIVE ShiftBytes(_, _)
ShiftBytes(x, k) == IF k = 0 THEN x ELSE ShiftBytes(x \div 256, k - 1)

\* u64::to_le_bytes; a U256 that fits 64 bits, as its 32 little-endian bytes
u64_to_le_bytes(x) == [i \in 1..8 |-> ShiftBytes(x, i - 1) % 256]
u256_to_le_bytes(x) == u64_to_le_bytes(x) \o Repeat(0, 24)

\* SCALE Compact<u32> of a length below 2^14: one byte, or two little-endian
CompactLen(n) ==
    IF n < 64 THEN <<4 * n>>
    ELSE <<(4 * n + 1) % 256, (4 * n + 1) \div 256>>

(***************************************************************************)
(* PalletContractMapping (src/adapter.rs; the pallet imports the same      *)
(* mapping from its primitives).  A string (&str, String) is the sequence  *)
(* of its chars, a char is its code point; an ASCII string is therefore    *)
(* also the sequence of its bytes.                                         *)
(***************************************************************************)
NameBalances == <<66, 97, 108, 97, 110, 99, 101, 115>>      \* "Balances"
NameStaking == <<83, 116, 97, 107, 105, 110, 103>>          \* "Staking"

\* str::as_bytes: the UTF-8 encoding (chars below U+10000)
RECURSIVE as_bytes(_)
as_bytes(string) ==
    IF string = <<>> THEN <<>>
    ELSE LET c == Head(string)
             utf8 == IF c < 128 THEN <<c>>
                     ELSE IF c < 2048 THEN <<192 + (c \div 64), 128 + (c % 64)>>
                     ELSE <<224 + (c \div 4096), 128 + ((c \div 64) % 64),
                            128 + (c % 64)>>
         IN  utf8 \o as_bytes(Tail(string))

\* String::from_utf8(bytes).ok(): the string the bytes encode, None when they
\* are not well-formed UTF-8
RECURSIVE from_utf8(_)
from_utf8(bytes) ==
    IF bytes = <<>> THEN Some(<<>>)
    ELSE LET b == Head(bytes)
             width == IF b < 128 THEN 1
                      ELSE IF b \in 194..223 THEN 2
                      ELSE IF b \in 224..239 THEN 3
                      ELSE IF b \in 240..244 THEN 4 ELSE 0
             second == IF b = 224 THEN 160..191
                       ELSE IF b = 237 THEN 128..159
                       ELSE IF b = 240 THEN 144..191
                       ELSE IF b = 244 THEN 128..143 ELSE 128..191
             wellFormed == /\ width > 0
                           /\ Len(bytes) >= width
                           /\ width > 1 => bytes[2] \in second
                           /\ \A i \in 3..width : bytes[i] \in 128..191
             lead == IF width = 1 THEN b
                     ELSE IF width = 2 THEN b - 192
                     ELSE IF width = 3 THEN b - 224 ELSE b - 240
             char == IF width = 1 THEN lead
                     ELSE IF width = 2 THEN lead * 64 + (bytes[2] - 128)
                     ELSE IF width = 3
                     THEN lead * 4096 + (bytes[2] - 128) * 64 + (bytes[3] - 128)
                     ELSE lead * 262144 + (bytes[2] - 128) * 4096
                          + (bytes[3] - 128) * 64 + (bytes[4] - 128)
         IN  IF ~wellFormed THEN None
             ELSE LET rest == from_utf8(SubSeq(bytes, width + 1, Len(bytes)))
                  IN  IF rest = None THEN None
                      ELSE Some(<<char>> \o Unwrap(rest))

\* the first min(len, 20) bytes of the string, the rest of the address zero
pad_to_eth_address(prefix) == PadRight(Take(as_bytes(prefix), 20), 20)
\* chars().take(8), then pad
contract_address(pallet) == pad_to_eth_address(Take(pallet, 8))

trim_end_matches_nul(s) ==
    LET keep == {i \in 1..Len(s) : s[i] # 0}
        last == IF keep = {} THEN 0 ELSE CHOOSE i \in keep : \A j \in keep : j <= i
    IN  SubSeq(s, 1, last)

\* variant: the padding is not trimmed
pallet_name_untrimmed(address) == from_utf8(address)

pallet_name(address) ==
    LET prefix == from_utf8(address)
    IN  IF prefix = None THEN None
        ELSE Some(trim_end_matches_nul(Unwrap(prefix)))

(***************************************************************************)
(* EthereumTransaction (chain/primitives/src/lib.rs).  r and s are opaque  *)
(* 32-byte words: r names the key that signed (0: not a valid signature    *)
(* scalar), s the message hash that was signed.                            *)
(***************************************************************************)
\* Encode of the items of a Vec<(H160, Vec<H256>)>: the address, then the
\* storage keys behind their compact length; an H256 is one opaque word
RECURSIVE EncodeItems(_)
EncodeItems(list) ==
    IF list = <<>> THEN <<>>
    ELSE Head(list)[1] \o CompactLen(Len(Head(list)[2])) \o Head(list)[2]
         \o EncodeItems(Tail(list))

\* parity-scale-codec Encode, fields in declaration order
Encode(tx) ==
    u64_to_le_bytes(tx.chain_id) \o u64_to_le_bytes(tx.nonce)
    \o u256_to_le_bytes(tx.max_priority_fee_per_gas)
    \o u256_to_le_bytes(tx.max_fee_per_gas)
    \o u64_to_le_bytes(tx.gas_limit) \o tx.to \o u256_to_le_bytes(tx.value)
    \o CompactLen(Len(tx.data)) \o tx.data
    \o CompactLen(Len(tx.access_list)) \o EncodeItems(tx.access_list)
    \o u64_to_le_bytes(tx.v) \o <<tx.r>> \o <<tx.s>>

hash(tx) == keccak_256(Encode(tx))

\* variant: the signed pre-image also covers the access list
message_hash_full(tx) ==
    keccak_256(<<2>> \o u64_to_le_bytes(tx.chain_id) \o u64_to_le_bytes(tx.nonce)
               \o u256_to_le_bytes(tx.max_priority_fee_per_gas)
               \o u256_to_le_bytes(tx.max_fee_per_gas)
               \o u64_to_le_bytes(tx.gas_limit) \o tx.to
               \o u256_to_le_bytes(tx.value) \o tx.data
               \o CompactLen(Len(tx.access_list)) \o EncodeItems(tx.access_list))

message_hash(tx) ==
    keccak_256(<<2>> \o u64_to_le_bytes(tx.chain_id) \o u64_to_le_bytes(tx.nonce)
               \o u256_to_le_bytes(tx.max_priority_fee_per_gas)
               \o u256_to_le_bytes(tx.max_fee_per_gas)
               \o u64_to_le_bytes(tx.gas_limit) \o tx.to
               \o u256_to_le_bytes(tx.value) \o tx.data)

\* Result<T, E>
ROk(x) == [ok |-> TRUE, val |-> <<x>>, err |-> ""]
RErr(e) == [ok |-> FALSE, val |-> <<>>, err |-> e]

\* signature(): r || s || recovery id, `as u8` keeps the low 8 bits
signature(tx) ==
    LET recovery_id == IF tx.v >= 27 THEN (tx.v - 27) % 256 ELSE tx.v % 256
    IN  IF recovery_id > 1 THEN RErr("()")
        ELSE ROk(<<tx.r, tx.s, recovery_id>>)

(***************************************************************************)
(* The evm-adapter pallet (chain/pallets/evm-adapter/src/lib.rs) in the    *)
(* runtime of mock.rs: System 0, Balances 1, EvmAdapter 2.                 *)
(***************************************************************************)
\* AccountId32: 32 literal bytes, or the blake2_256 digest of `bytes`
RawAccount(b) == [kind |-> "raw", bytes |-> Repeat(b, 32)]
blake2_256_account(input) == [kind |-> "blake2_256", bytes |-> input]

\* RuntimeOrigin
Signed(who) == [kind |-> "Signed", who |-> Some(who)]
Root == [kind |-> "Root", who |-> None]
NoneOrigin == [kind |-> "None", who |-> None]

\* secp256k1_ecdsa_recover: the public key (named by its key) that signed msg
\* with recovery id 0; a valid r with another message or recovery id recovers
\* a key nobody holds (0); an invalid r does not recover
secp256k1_ecdsa_recover(sig, msg) ==
    IF sig[1] = 0 THEN RErr("BadRS")
    ELSE IF sig[2] = msg /\ sig[3] = 0 THEN ROk(sig[1])
    ELSE ROk(0)

\* keccak_256(pubkey)[12..]: an address outside ASCII, one per key
keccak_address(pubkey) == Repeat(200 + pubkey, 20)

verify_and_recover_signer(transaction) ==
    LET sig == signature(transaction)
    IN  IF ~sig.ok THEN RErr("InvalidRecoveryId")
        ELSE LET pubkey == secp256k1_ecdsa_recover(sig.val[1],
                                                   message_hash(transaction))
             IN  IF ~pubkey.ok THEN RErr("SignerRecoveryFailed")
                 ELSE ROk(keccak_address(pubkey.val[1]))

map_address_to_account(address) == blake2_256_account(address \o Repeat(0, 12))

\* RuntimeCall, one shape for the calls of the model
TransferAllowDeath(dest, value) ==
    [pallet |-> "Balances", call |-> "transfer_allow_death", source |-> None,
     dest |-> Some(dest), value |-> value]
ForceTransfer(source, dest, value) ==
    [pallet |-> "Balances", call |-> "force_transfer", source |-> Some(source),
     dest |-> Some(dest), value |-> value]

\* U256::from_big_endian(word).low_u128().saturated_into(): the high 16 bytes
\* are dropped; the model's balances are 24-bit, larger amounts saturate
MaxBalance == 16777215
AmountOf(word) ==
    IF \E i \in 17..29 : word[i] # 0 THEN MaxBalance
    ELSE 65536 * word[30] + 256 * word[31] + word[32]

\* variant: the length of the two ABI words is checked before the selector
decode_balances_call_length_first(transaction) ==
    LET data == transaction.data
    IN  IF Len(data) < 68 THEN RErr("InvalidTransactionData")
        ELSE IF SubSeq(data, 1, 4) # <<169, 5, 156, 187>>
        THEN RErr("CallDecodeFailed")
        ELSE ROk(TransferAllowDeath(map_address_to_account(SubSeq(data, 17, 36)),
                                    AmountOf(SubSeq(data, 37, 68))))

decode_balances_call(transaction) ==
    LET data == transaction.data
    IN  IF Len(data) < 4 \/ SubSeq(data, 1, 4) # <<169, 5, 156, 187>>
        THEN RErr("CallDecodeFailed")
        ELSE IF Len(data) < 68 THEN RErr("InvalidTransactionData")
        ELSE ROk(TransferAllowDeath(map_address_to_account(SubSeq(data, 17, 36)),
                                    AmountOf(SubSeq(data, 37, 68))))

\* Compact<Balance> in single-byte mode (values below 64)
CompactValueOk(bytes, at) == Len(bytes) >= at /\ bytes[at] % 4 = 0
CompactValue(bytes, at) == bytes[at] \div 4

\* RuntimeCall::decode of the two Balances calls of the model; decode reads a
\* prefix of the input and ignores what follows
RuntimeCall_decode(data) ==
    IF Len(data) >= 2 /\ data[1] = 1 /\ data[2] = 0 /\ CompactValueOk(data, 35)
    THEN ROk(TransferAllowDeath([kind |-> "raw", bytes |-> SubSeq(data, 3, 34)],
                                CompactValue(data, 35)))
    ELSE IF Len(data) >= 2 /\ data[1] = 1 /\ data[2] = 2 /\ CompactValueOk(data, 67)
    THEN ROk(ForceTransfer([kind |-> "raw", bytes |-> SubSeq(data, 3, 34)],
                           [kind |-> "raw", bytes |-> SubSeq(data, 35, 66)],
                           CompactValue(data, 67)))
    ELSE RErr("decode")

decode_call(transaction) ==
    LET name == pallet_name(transaction.to)
    IN  IF ~IsSome(name) THEN RErr("UnsupportedPallet")
        ELSE IF Unwrap(name) = NameBalances THEN decode_balances_call(transaction)
        ELSE IF Unwrap(name) = <<>>
        THEN IF RuntimeCall_decode(transaction.data).ok
             THEN RuntimeCall_decode(transaction.data)
             ELSE RErr("CallDecodeFailed")
        ELSE RErr("UnsupportedPallet")

\* pallet_balances free balances; an account that is absent holds 0
BalanceOf(bal, who) == IF who \in DOMAIN bal THEN bal[who] ELSE 0

Move(bal, source, dest, value) ==
    IF source = dest THEN bal
    ELSE MapInsert(MapInsert(bal, source, BalanceOf(bal, source) - value),
                   dest, BalanceOf(bal, dest) + value)

\* call.dispatch(origin): transfer_allow_death wants a signed origin and the
\* funds, force_transfer wants Root
dispatch(call, origin, bal) ==
    LET source == IF call.call = "force_transfer" THEN call.source ELSE origin.who
        wanted == IF call.call = "force_transfer" THEN "Root" ELSE "Signed"
    IN  IF origin.kind # wanted THEN [ok |-> FALSE, err |-> "BadOrigin", bal |-> bal]
        ELSE IF BalanceOf(bal, Unwrap(source)) < call.value
        THEN [ok |-> FALSE, err |-> "FundsUnavailable", bal |-> bal]
        ELSE [ok |-> TRUE, err |-> "",
              bal |-> Move(bal, Unwrap(source), Unwrap(call.dest), call.value)]

\* Event<T>
TransactionExecuted(from, to, transaction_hash) ==
    [name |-> "TransactionExecuted", from |-> from, to |-> to,
     transaction_hash |-> Some(transaction_hash), error |-> None]
TransactionFailed(from, to, error) ==
    [name |-> "TransactionFailed", from |-> from, to |-> to,
     transaction_hash |-> None, error |-> Some(error)]

\* variant: the decoded call is dispatched with the extrinsic's own origin
dispatch_origin_outer(origin, substrate_account) == origin

\* the origin of the dispatch: RawOrigin::Signed(substrate_account), whatever
\* the origin of the extrinsic
dispatch_origin(origin, substrate_account) == Signed(substrate_account)

\* an execution of transact that stops before it dispatches
Rejected(error, bal) ==
    [result |-> RErr(error), events |-> <<>>, dispatched |-> <<>>, bal |-> bal]

\* transact(origin, transaction): its result, the events it deposits, the
\* dispatches it makes (origin and call) and the balances it leaves
transact(origin, transaction, bal) ==
    IF origin.kind # "Signed" THEN Rejected("BadOrigin", bal)
    ELSE LET from == verify_and_recover_signer(transaction)
         IN  IF ~from.ok THEN Rejected(from.err, bal)
    ELSE LET call == decode_call(transaction)
         IN  IF ~call.ok THEN Rejected(call.err, bal)
    ELSE LET substrate_account == map_address_to_account(from.val[1])
             inner == dispatch_origin(origin, substrate_account)
             result == dispatch(call.val[1], inner, bal)
             made == <<[origin |-> inner, call |-> call.val[1]]>>
         IN  IF result.ok
             THEN [result |-> ROk("()"),
                   events |-> <<TransactionExecuted(from.val[1], transaction.to,
                                                    hash(transaction))>>,
                   dispatched |-> made, bal |-> result.bal]
             ELSE [result |-> RErr("DispatchFailed"),
                   events |-> <<TransactionFailed(from.val[1], transaction.to,
                                                  result.err)>>,
                   dispatched |-> made, bal |-> bal]

(***************************************************************************)
(* SpecPallet: transact executed on transactions and outer origins drawn   *)
(* from small sets.                                                        *)
(***************************************************************************)
ZeroAddress == Repeat(0, 20)
Tos == {ZeroAddress, contract_address(NameBalances), contract_address(NameStaking),
        Repeat(255, 20)}

\* SCALE: Balances.transfer_allow_death(dest = [2; 32], value = 1) and
\* Balances.force_transfer(source = [1; 32], dest = [2; 32], value = 1)
ScaleTransfer == <<1, 0>> \o Repeat(2, 32) \o <<4>>
ScaleForceTransfer == <<1, 2>> \o Repeat(1, 32) \o Repeat(2, 32) \o <<4>>
\* ABI: transfer(address = [2; 20], uint256 = 1), and the bare selector
AbiTransfer == <<169, 5, 156, 187>> \o Repeat(0, 12) \o Repeat(2, 20)
               \o Repeat(0, 31) \o <<1>>
AbiSelector == <<169, 5, 156, 187>>
Datas == {ScaleTransfer, ScaleForceTransfer, AbiTransfer, AbiSelector, <<255>>}

Keys == {1, 2}              \* the keys users hold
NoMessage == keccak_256(<<>>)

Body(to, data) ==
    [chain_id |-> 1, nonce |-> 0, max_priority_fee_per_gas |-> 0,
     max_fee_per_gas |-> 0, gas_limit |-> 21000, to |-> to, value |-> 0,
     data |-> data, access_list |-> <<>>, v |-> 0, r |-> 0, s |-> NoMessage]

\* the body with r of key (0: garbage), s over the body or garbage, and v
WithSignature(body, key, good, v) ==
    [body EXCEPT !.r = key, !.v = v,
                 !.s = IF good THEN message_hash(body) ELSE NoMessage]

\* signatures: of key 1 with v = 0, 27 (as signed), 1 (the other recovery id),
\* 29 and 283 (out of range); of key 2, whose account holds nothing; over
\* another message; with a bad r
Signatures ==
    {<<1, TRUE, 0>>, <<1, TRUE, 27>>, <<1, TRUE, 1>>, <<1, TRUE, 29>>,
     <<1, TRUE, 283>>, <<2, TRUE, 0>>, <<1, FALSE, 0>>, <<0, TRUE, 0>>}

Transactions ==
    {WithSignature(Body(to, data), sg[1], sg[2], sg[3]) :
        to \in Tos, data \in Datas, sg \in Signatures}

Origins == {Signed(RawAccount(1)),
            Signed(map_address_to_account(keccak_address(1))), NoneOrigin}

Genesis ==
    MapInsert(MapInsert(MapInsert(EmptyMap, RawAccount(1), 2), RawAccount(2), 2),
              map_address_to_account(keccak_address(1)), 2)

Executions == IF exec = <<>> THEN 0 ELSE exec[1].n

\* the transactions whose execution returned Ok(()) so far
Accepted == IF exec = <<>> THEN {} ELSE exec[1].accepted

\* variant: a transaction that was accepted before is turned away
ExecuteOnce(origin, transaction) ==
    LET e == IF transaction \in Accepted THEN Rejected("Stale", balances)
             ELSE transact(origin, transaction, balances)
    IN  /\ balances' = e.bal
        /\ exec' = <<[n |-> Executions + 1, origin |-> origin, tx |-> transaction,
                      before |-> balances,
                      result |-> e.result, events |-> e.events,
                      dispatched |-> e.dispatched,
                      accepted |-> IF e.result.ok
                                   THEN Accepted \cup {transaction}
                                   ELSE Accepted]>>

\* the runtime executes the extrinsic transact(transaction) with origin
Execute(origin, transaction) ==
    LET e == transact(origin, transaction, balances)
    IN  /\ balances' = e.bal
        /\ exec' = <<[n |-> Executions + 1, origin |-> origin, tx |-> transaction,
                      before |-> balances,
                      result |-> e.result, events |-> e.events,
                      dispatched |-> e.dispatched,
                      accepted |-> IF e.result.ok
                                   THEN Accepted \cup {transaction}
                                   ELSE Accepted]>>

Transact(origin, transaction) ==
    /\ Executions < MaxTx
    /\ Execute(origin, transaction)
    /\ UNCHANGED notPalletVars

\* the extrinsic transact(transaction) that was executed before is submitted
\* and executed again, with any origin: nothing in transact tells the two apart
Resubmit(origin) ==
    /\ exec # <<>>
    /\ Executions < MaxTx + MaxReplay
    /\ Execute(origin, exec[1].tx)
    /\ UNCHANGED notPalletVars

InitPallet ==
    /\ cache = with_capacity(1)
    /\ inserted = <<>>
    /\ plain = FALSE
    /\ numSrc = EmptyMap
    /\ IdleGateway
    /\ balances = Genesis
    /\ exec = <<>>
    /\ IdleWrite
    /\ IdleSub
    /\ IdleSig

NextPallet ==
    \/ \E origin \in Origins, transaction \in Transactions :
          Transact(origin, transaction)
    \/ \E origin \in Origins : Resubmit(origin)

SpecPallet == InitPallet /\ [][NextPallet]_vars

(***************************************************************************)
(* SpecSig: signature() and verify_and_recover_signer applied to           *)
(* transactions with every v in 0..MaxV.                                   *)
(***************************************************************************)
\* access lists: empty, one address without and with a storage key, another
\* address
AccessLists ==
    {<<>>, <<<<Repeat(1, 20), <<>>>>>>, <<<<Repeat(1, 20), <<7>>>>>>,
     <<<<Repeat(2, 20), <<>>>>>>}

InitSig ==
    /\ cache = with_capacity(1)
    /\ inserted = <<>>
    /\ plain = FALSE
    /\ numSrc = EmptyMap
    /\ IdleGateway
    /\ IdlePallet
    /\ IdleWrite
    /\ IdleSub
    /\ \E key \in {0, 1}, v \in 0..MaxV, list \in AccessLists :
          sigTx = <<WithSignature([Body(ZeroAddress, ScaleTransfer)
                                      EXCEPT !.access_list = list], key, TRUE, v)>>
    /\ sigRes = <<>>
    /\ rd = <<>>

ApplySignature ==
    /\ sigRes = <<>>
    /\ sigRes' = <<[sig |-> signature(sigTx[1]),
                    signer |-> verify_and_recover_signer(sigTx[1])]>>
    /\ UNCHANGED <<sigTx, rd, cacheVars, gwVars, palletVars, writeVars, subVars>>

NextSig == ApplySignature

SpecSig == InitSig /\ [][NextSig]_vars

(***************************************************************************)
(* The write path: eth_sendRawTransaction (src/server.rs), the client's    *)
(* submit_evm_transaction (adapter/src/sub_client.rs), the node's pool, and *)
(* the runtime executing what the pool holds.                              *)
(***************************************************************************)
notWriteVars == <<cacheVars, gwVars, palletVars, subVars, sigVars>>

WriteTransactions ==
    {t \in Transactions : /\ t.to = ZeroAddress
                          /\ t.v = 0
                          /\ t.data \in {ScaleTransfer, <<255>>}}

IdleCall ==
    [pc |-> "idle", api |-> "none", tx |-> <<>>, call_data |-> <<>>,
     ret |-> [tag |-> "none", hash |-> None]]

\* the call data of submit_evm_transaction: pallet index, call index, SCALE(tx)
submit_call_data(transaction) == <<6, 0>> \o Encode(transaction)

\* the node's hash of an extrinsic
extrinsic_hash(bytes) == [blake2_256 |-> bytes]

\* parity-scale-codec Decode: the transaction with this encoding
DecodeTransaction(bytes) == CHOOSE t \in Transactions : Encode(t) = bytes

\* eth_sendRawTransaction(bytes): unimplemented!(), the handler panics
SendRawTransaction(transaction) ==
    /\ wr.pc \in {"idle", "done"}
    /\ wr' = [IdleCall EXCEPT !.pc = "done", !.api = "eth_sendRawTransaction",
                              !.tx = <<transaction>>,
                              !.ret = [tag |-> "panic", hash |-> None]]
    /\ UNCHANGED <<pool, notWriteVars>>

\* submit_evm_transaction(transaction) up to its author_submitExtrinsic request
SubmitEvmTransaction(transaction) ==
    /\ wr.pc \in {"idle", "done"}
    /\ wr' = [IdleCall EXCEPT !.pc = "await_submit", !.api = "submit_evm_transaction",
                              !.tx = <<transaction>>,
                              !.call_data = submit_call_data(transaction)]
    /\ UNCHANGED <<pool, notWriteVars>>

\* the node's reply: an error, or the hash of the extrinsic it took
SubmitReply ==
    /\ wr.pc = "await_submit"
    /\ \/ /\ wr' = [wr EXCEPT !.pc = "done", !.ret = [tag |-> "Err", hash |-> None]]
          /\ UNCHANGED pool
       \/ /\ Len(pool) < MaxPool
          /\ pool' = Append(pool, wr.call_data)
          /\ wr' = [wr EXCEPT !.pc = "done",
                              !.ret = [tag |-> "Ok",
                                       hash |-> Some(extrinsic_hash(wr.call_data))]]
    /\ UNCHANGED notWriteVars

\* a block includes the oldest extrinsic of the pool: it carries no signature,
\* so the runtime executes its call, transact, with origin None
IncludeExtrinsic ==
    /\ pool # <<>>
    /\ Executions < MaxTx
    /\ Head(pool)[1] = 6 /\ Head(pool)[2] = 0
    /\ pool' = Tail(pool)
    /\ Execute(NoneOrigin, DecodeTransaction(SubSeq(Head(pool), 3, Len(Head(pool)))))
    /\ UNCHANGED <<wr, cacheVars, gwVars, subVars, sigVars>>

InitWrite ==
    /\ cache = with_capacity(1)
    /\ inserted = <<>>
    /\ plain = FALSE
    /\ numSrc = EmptyMap
    /\ IdleGateway
    /\ balances = Genesis
    /\ exec = <<>>
    /\ pool = <<>>
    /\ wr = IdleCall
    /\ IdleSub
    /\ IdleSig

NextWrite ==
    \/ \E transaction \in WriteTransactions : SendRawTransaction(transaction)
    \/ \E transaction \in WriteTransactions : SubmitEvmTransaction(transaction)
    \/ SubmitReply
    \/ IncludeExtrinsic

SpecWrite == InitWrite /\ [][NextWrite]_vars

(***************************************************************************)
(* eth_subscribe (src/server.rs) and the task it spawns,                   *)
(* handle_accepted_subscription (adapter/src/sub_client.rs).  The k-th     *)
(* finalized block the backend announces has hash k.                       *)
(***************************************************************************)
notSubVars == <<cacheVars, gwVars, palletVars, writeVars, sigVars>>

SubscriptionKinds == {"NewHeads", "Logs", "NewPendingTransactions", "Syncing"}

\* pc: the task's position; accepted: pending.accept() succeeded; stream: the
\* items of the backend's stream not yet taken; open: the backend may add
\* items; items: how many it added; yielded (history): the hashes of the blocks
\* it added; notif: the notification the task is sending; sent: what the sink
\* took; closed: the client went away; errors (history): the errors the task's
\* stream yielded; before_error (history): how many blocks the backend had
\* announced when its stream first reported an error
IdleSubscription ==
    [pc |-> "idle", kind |-> "none", accepted |-> FALSE, stream |-> <<>>,
     open |-> FALSE, items |-> 0, yielded |-> <<>>, notif |-> None,
     sent |-> <<>>, closed |-> FALSE, errors |-> <<>>, before_error |-> None]

\* the notification of a block
BlockNotification(block_hash) == [hash |-> block_hash, is_new_best |-> FALSE]

\* variant: an error of the backend's stream is dropped by the filter
block_stream_filter_errors(item) ==
    IF IsSome(item) THEN Some(ROk(BlockNotification(Unwrap(item)))) ELSE None

\* subscribe_new_blocks's filter_map over the backend's stream: a block becomes
\* its notification, an error becomes AdapterError { message }; None would
\* drop the item
block_stream_filter(item) ==
    IF IsSome(item) THEN Some(ROk(BlockNotification(Unwrap(item))))
    ELSE Some(RErr("Error in block stream"))

\* variant: the newest item is taken first
stream_next_newest(stream) ==
    [item |-> stream[Len(stream)], rest |-> SubSeq(stream, 1, Len(stream) - 1)]

\* stream.next(): the oldest item and the stream after it
stream_next(stream) == [item |-> Head(stream), rest |-> Tail(stream)]

\* subscribe(pending, kind): accept the sink (or fail to), then spawn the task,
\* which does nothing for a kind other than NewHeads
Subscribe(kind) ==
    /\ sub.pc = "idle"
    /\ \/ sub' = [sub EXCEPT !.pc = "rejected", !.kind = kind]
       \/ sub' = [sub EXCEPT !.kind = kind, !.accepted = TRUE,
                             !.pc = IF kind = "NewHeads" THEN "subscribing"
                                    ELSE "ended"]
    /\ UNCHANGED notSubVars

\* the reply to blocks().subscribe_finalized(): a stream, or an error
SubscribeFinalized ==
    /\ sub.pc = "subscribing"
    /\ \/ sub' = [sub EXCEPT !.pc = "loop", !.open = TRUE]
       \/ sub' = [sub EXCEPT !.pc = "ended"]
    /\ UNCHANGED notSubVars

\* the backend finalizes a block and announces it, or its stream reports an error
BackendYield(ok) ==
    /\ sub.open
    /\ sub.items < MaxStream
    /\ sub' = IF ok
              THEN [sub EXCEPT !.items = @ + 1,
                               !.stream = Append(@, Some(Len(sub.yielded) + 1)),
                               !.yielded = Append(@, Len(sub.yielded) + 1)]
              ELSE [sub EXCEPT !.items = @ + 1, !.stream = Append(@, None),
                               !.before_error =
                                   IF IsSome(@) THEN @ ELSE Some(Len(sub.yielded))]
    /\ UNCHANGED notSubVars

\* the backend's stream ends
BackendEnd ==
    /\ sub.open
    /\ sub' = [sub EXCEPT !.open = FALSE]
    /\ UNCHANGED notSubVars

\* the client unsubscribes or disconnects
ClientClose ==
    /\ sub.accepted
    /\ ~sub.closed
    /\ sub' = [sub EXCEPT !.closed = TRUE]
    /\ UNCHANGED notSubVars

\* variant: the closed sink is not looked at
SelectClosedIgnored ==
    /\ sub.pc = "loop"
    /\ sub.closed
    /\ UNCHANGED vars

\* select!: sink.closed() is ready
SelectClosed ==
    /\ sub.pc = "loop"
    /\ sub.closed
    /\ sub' = [sub EXCEPT !.pc = "ended"]
    /\ UNCHANGED notSubVars

\* select!: stream.next() is ready with an item; an error item ends the task
SelectNext ==
    /\ sub.pc = "loop"
    /\ sub.stream # <<>>
    /\ LET next == stream_next(sub.stream)
           item == block_stream_filter(next.item)
       IN  sub' = IF item = None
                  THEN [sub EXCEPT !.stream = next.rest]
                  ELSE IF Unwrap(item).ok
                  THEN [sub EXCEPT !.stream = next.rest, !.pc = "sending",
                                   !.notif = Unwrap(item).val]
                  ELSE [sub EXCEPT !.stream = next.rest, !.pc = "ended",
                                   !.errors = Append(@, Unwrap(item).err)]
    /\ UNCHANGED notSubVars

\* select!: stream.next() is ready with None, the stream ended
SelectEnd ==
    /\ sub.pc = "loop"
    /\ sub.stream = <<>>
    /\ ~sub.open
    /\ sub' = [sub EXCEPT !.pc = "ended"]
    /\ UNCHANGED notSubVars

\* sink.send(notification): fails when the client went away
SinkSend ==
    /\ sub.pc = "sending"
    /\ sub' = IF sub.closed
              THEN [sub EXCEPT !.pc = "ended", !.notif = None]
              ELSE [sub EXCEPT !.pc = "loop", !.notif = None,
                               !.sent = Append(@, Unwrap(sub.notif))]
    /\ UNCHANGED notSubVars

InitSub ==
    /\ cache = with_capacity(1)
    /\ inserted = <<>>
    /\ plain = FALSE
    /\ numSrc = EmptyMap
    /\ IdleGateway
    /\ IdlePallet
    /\ IdleWrite
    /\ sub = IdleSubscription
    /\ IdleSig

NextSub ==
    \/ \E kind \in SubscriptionKinds : Subscribe(kind)
    \/ SubscribeFinalized
    \/ \E ok \in BOOLEAN : BackendYield(ok)
    \/ BackendEnd
    \/ ClientClose
    \/ SelectClosed
    \/ SelectNext
    \/ SelectEnd
    \/ SinkSend

SpecSub == InitSub /\ [][NextSub]_vars

\* The task is a spawned tokio task: the runtime polls it whenever one of the
\* futures it waits for is ready, so each of its steps that stays enabled is
\* taken; the backend answers the subscription request.  Nothing is assumed of
\* the backend's stream or of the client.
SpecSubLive ==
    /\ SpecSub
    /\ WF_vars(SubscribeFinalized)
    /\ WF_vars(SelectClosed)
    /\ WF_vars(SelectNext)
    /\ WF_vars(SelectEnd)
    /\ WF_vars(SinkSend)

(***************************************************************************)
(* The reads that touch no block: PalletContractMapping's two directions   *)
(* (src/adapter.rs), get_code and call (adapter/src/sub_client.rs).  rd    *)
(* holds the request (op, arg), the call's position (pc), its answer (ret) *)
(* and the storage requests it sent to the backend (requests).  None of    *)
(* these reads keeps state, so one request per behaviour covers them.      *)
(***************************************************************************)
notReadVars == <<cacheVars, gwVars, palletVars, writeVars, subVars, sigTx, sigRes>>

\* pallet names: strings of 'A' (one byte) and U+20AC (three bytes)
PalletNames == UNION {[1..n -> {65, 8364}] : n \in 0..MaxNameLen}

\* the zero address, two pallets' addresses, the account address of the
\* pallet's tests ([1u8; 20]) and the address of a key
ReadAddresses ==
    {ZeroAddress, contract_address(NameBalances), contract_address(NameStaking),
     Repeat(1, 20), keccak_address(1)}

\* variant: the address is hashed without the padding
to_ss58_unpadded(address) == blake2_256_account(address)

\* AddressMapping::to_ss58: blake2_256 of the address in a zeroed 32-byte input
to_ss58(address) == blake2_256_account(PadRight(address, 32))

\* get_code: "revert: <name>" for an address that reads as a string
get_code(address) ==
    LET name == pallet_name(address)
    IN  IF IsSome(name)
        THEN ROk(<<114, 101, 118, 101, 114, 116, 58, 32>> \o as_bytes(Unwrap(name)))
        ELSE ROk(<<>>)

\* the runtime's metadata: pallet name -> its storage entries (name -> hashers
\* of a map, none for a plain value), None for a pallet that declares no storage
Metadata ==
    NameBalances :> Some("TotalIssuance" :> <<>>
                         @@ "Account" :> <<"Blake2_128Concat">>
                         @@ "Approvals" :> <<"Twox64Concat", "Identity">>)
    @@ NameStaking :> None

\* eth_call requests.  The input bytes are held as what a JSON parser sees in
\* them: no JSON at all, or an object and its "name" and "keys" members
CallRequests ==
    [to : {None, Some([kind |-> "Create", dest |-> ZeroAddress])}
          \cup {Some([kind |-> "Call", dest |-> a]) : a \in ReadAddresses},
     input : {None, Some([json |-> FALSE, name |-> None, keys |-> None])}
             \cup {Some([json |-> TRUE, name |-> n, keys |-> k]) :
                      n \in {None, Some("TotalIssuance"), Some("Account"),
                             Some("Approvals"), Some("Locks")},
                      k \in {None} \cup {Some([i \in 1..j |-> <<i>>]) : j \in 0..MaxKeys}}]

\* variant: input that does not parse reads as the default key
from_slice_or_default(input) ==
    IF input.json /\ IsSome(input.name) /\ IsSome(input.keys)
    THEN Some([name |-> Unwrap(input.name), keys |-> Unwrap(input.keys)])
    ELSE Some([name |-> "TotalIssuance", keys |-> <<>>])

\* serde_json::from_slice::<StorageKey>(&input).ok(): both fields are required
from_slice(input) ==
    IF input.json /\ IsSome(input.name) /\ IsSome(input.keys)
    THEN Some([name |-> Unwrap(input.name), keys |-> Unwrap(input.keys)])
    ELSE None

\* a digest is the record of its function and input; key.to_vec() is "raw"
Part(fn, of) == [fn |-> fn, of |-> of]

\* hash_key(key, hasher): the parts of the hashed key
hash_key(key, hasher) ==
    IF hasher = "Blake2_128" THEN <<Part("blake2_128", key)>>
    ELSE IF hasher = "Blake2_256" THEN <<Part("blake2_256", key)>>
    ELSE IF hasher = "Blake2_128Concat"
    THEN <<Part("blake2_128", key), Part("raw", key)>>
    ELSE IF hasher = "Twox128" THEN <<Part("twox_128", key)>>
    ELSE IF hasher = "Twox256" THEN <<Part("twox_256", key)>>
    ELSE IF hasher = "Twox64Concat"
    THEN <<Part("twox_64", key), Part("raw", key)>>
    ELSE <<Part("raw", key)>>

\* for (i, hasher) in hashers.iter().enumerate(), from the i-th on: the key at
\* i, if there is one, hashed
RECURSIVE extend_hashed(_, _, _)
extend_hashed(hashers, keys, i) ==
    IF i > Len(hashers) THEN <<>>
    ELSE (IF i <= Len(keys) THEN hash_key(keys[i], hashers[i]) ELSE <<>>)
         \o extend_hashed(hashers, keys, i + 1)

\* call, up to its storage request: None where it returns Ok(None) early, else
\* the key it fetches (Twox128 of the two names, then each key under its hasher)
final_key(request) ==
    LET dest == IF IsSome(request.to) /\ Unwrap(request.to).kind = "Call"
                THEN Some(Unwrap(request.to).dest) ELSE None
        name == IF IsSome(dest) THEN pallet_name(Unwrap(dest)) ELSE None
        storage_key == IF IsSome(request.input)
                       THEN from_slice(Unwrap(request.input)) ELSE None
        storage == IF IsSome(name) /\ Unwrap(name) \in DOMAIN Metadata
                   THEN Metadata[Unwrap(name)] ELSE None
        entry == IF IsSome(storage) /\ IsSome(storage_key)
                    /\ Unwrap(storage_key).name \in DOMAIN Unwrap(storage)
                 THEN Some(Unwrap(storage)[Unwrap(storage_key).name]) ELSE None
    IN  IF dest = None \/ name = None \/ storage_key = None \/ entry = None
        THEN None
        ELSE LET hashers == Unwrap(entry)
                 keys == Unwrap(storage_key).keys
             IN  Some(<<Part("twox_128", as_bytes(Unwrap(name))),
                        Part("twox_128", Unwrap(storage_key).name)>>
                      \o extend_hashed(hashers, keys, 1))

\* the call of the root crate's sub_client.rs, up to its storage request: an
\* AdapterError where a step fails, one of them a map entry with fewer keys
\* than hashers, else the key it fetches
final_key_root(request) ==
    LET AdapterError(message) == RErr(message)
        dest == request.to
        name == IF IsSome(dest) /\ Unwrap(dest).kind = "Call"
                THEN pallet_name(Unwrap(dest).dest) ELSE None
        input == request.input
        storage_key == IF IsSome(input) THEN from_slice(Unwrap(input)) ELSE None
        pallet == IF IsSome(name) /\ Unwrap(name) \in DOMAIN Metadata
                  THEN Some(Metadata[Unwrap(name)]) ELSE None
        storage == IF IsSome(pallet) THEN Unwrap(pallet) ELSE None
        entry == IF IsSome(storage) /\ IsSome(storage_key)
                    /\ Unwrap(storage_key).name \in DOMAIN Unwrap(storage)
                 THEN Some(Unwrap(storage)[Unwrap(storage_key).name]) ELSE None
    IN  IF dest = None THEN AdapterError("Destination not found")
        ELSE IF Unwrap(dest).kind # "Call"
        THEN AdapterError("Unsupported transaction type")
        ELSE IF name = None THEN AdapterError("Destination is not a contract")
        ELSE IF input = None THEN AdapterError("Call input not found")
        ELSE IF storage_key = None THEN AdapterError("Invalid call input")
        ELSE IF pallet = None THEN AdapterError("Pallet not found")
        ELSE IF storage = None THEN AdapterError("Pallet storage not found")
        ELSE IF entry = None THEN AdapterError("Storage entry not found")
        ELSE LET hashers == Unwrap(entry)
                 keys == Unwrap(storage_key).keys
             IN  IF Len(keys) < Len(hashers)
                 THEN AdapterError("Number of storage keys does not match with hashers")
                 ELSE ROk(<<Part("twox_128", as_bytes(Unwrap(name))),
                            Part("twox_128", Unwrap(storage_key).name)>>
                          \o extend_hashed(hashers, keys, 1))

\* the test's round trip: contract_address(pallet), then pallet_name of it
PalletMapping(pallet) ==
    /\ rd.pc = "idle"
    /\ rd' = [pc |-> "done", op |-> "pallet_mapping", arg |-> pallet,
              ret |-> pallet_name(contract_address(pallet)), requests |-> <<>>]
    /\ UNCHANGED notReadVars

GetCode(address) ==
    /\ rd.pc = "idle"
    /\ rd' = [pc |-> "done", op |-> "get_code", arg |-> address,
              ret |-> get_code(address), requests |-> <<>>]
    /\ UNCHANGED notReadVars

\* call(request), up to its return Ok(None) or its storage request
Call(request) ==
    /\ rd.pc = "idle"
    /\ LET key == final_key(request)
       IN  rd' = IF key = None
                 THEN [pc |-> "done", op |-> "call", arg |-> request,
                       ret |-> ROk(None), requests |-> <<>>]
                 ELSE [pc |-> "await_fetch", op |-> "call", arg |-> request,
                       ret |-> ROk(None), requests |-> <<Unwrap(key)>>]
    /\ UNCHANGED notReadVars

\* call(request) of the root crate, up to its error or its storage request
CallRoot(request) ==
    /\ rd.pc = "idle"
    /\ LET key == final_key_root(request)
       IN  rd' = IF ~key.ok
                 THEN [pc |-> "done", op |-> "call_root", arg |-> request,
                       ret |-> key, requests |-> <<>>]
                 ELSE [pc |-> "await_fetch", op |-> "call_root", arg |-> request,
                       ret |-> ROk(None), requests |-> <<key.val[1]>>]
    /\ UNCHANGED notReadVars

\* AddressMapping::to_address: the first 20 bytes of the account id
to_address(account_id) == SubSeq(account_id, 1, 20)

\* to_wei(value, decimals) = value * 10^decimals, kept as the two factors
to_wei(value, decimals) == [value |-> value, exp10 |-> decimals]

\* the extrinsics of a block of the backend.  address: address_bytes();
\* pallet: pallet_name(), None where the metadata does not know the pallet;
\* dest: the variant of the MultiAddress of a Balances transfer and its bytes;
\* nonce: signed_extensions() and, in them, nonce(); now: timestamp.set's time
Extrinsics ==
    LET Timestamp == <<84, 105, 109, 101, 115, 116, 97, 109, 112>>
        System == <<83, 121, 115, 116, 101, 109>>
        signer == Some(Repeat(3, 32))
        Ext(address, pallet, call, dest, value, nonce, now) ==
            [address |-> address, pallet |-> pallet, call |-> call, dest |-> dest,
             value |-> value, nonce |-> nonce, now |-> now]
        To(variant, bytes) == Some([variant |-> variant, bytes |-> bytes])
    IN  {Ext(None, Some(Timestamp), "set", None, 0, None, 5000),
         Ext(None, Some(System), "remark", None, 0, None, 0),
         Ext(signer, Some(System), "remark", None, 0, Some(Some(7)), 0),
         Ext(signer, None, "unknown", None, 0, Some(None), 0),
         Ext(signer, Some(NameBalances), "transfer_allow_death",
             To("Id", Repeat(2, 32)), 1, Some(Some(7)), 0),
         Ext(signer, Some(NameBalances), "transfer_keep_alive",
             To("Address32", Repeat(2, 32)), 1, Some(None), 0),
         Ext(signer, Some(NameBalances), "transfer_allow_death",
             To("Address20", Repeat(2, 20)), 1, Some(Some(7)), 0),
         Ext(signer, Some(NameBalances), "transfer_keep_alive",
             To("Index", <<2>>), 1, Some(Some(7)), 0)}

\* the blocks the backend returns: up to MaxExt extrinsics, in any order
SubstrateBlocks == UNION {[1..n -> Extrinsics] : n \in 0..MaxExt}

\* a panic of the task that runs the request
Panicked(message) == [tag |-> "Panic", val |-> Some(message)]

\* convert_extrinsic of the extrinsic at 0-based index tx_index
convert_extrinsic(ext, tx_index, decimals) ==
    LET from == to_address(IF IsSome(ext.address) THEN Unwrap(ext.address)
                           ELSE Repeat(0, 32))
        transfer == ext.pallet = Some(NameBalances)
                    /\ ext.call \in {"transfer_allow_death", "transfer_keep_alive"}
        nonce == IF IsSome(ext.nonce) /\ IsSome(Unwrap(ext.nonce))
                 THEN Unwrap(Unwrap(ext.nonce)) ELSE 0
        Tx(dest, value) ==
            Ok([from |-> from, to |-> dest, value |-> to_wei(value, decimals),
                nonce |-> nonce, gas_limit |-> 21000000,
                input |-> <<ext.pallet, ext.call>>,
                transaction_index |-> Some(tx_index)])
    IN  IF transfer
        THEN IF Unwrap(ext.dest).variant \in {"Id", "Address32"}
             THEN Tx(to_address(Unwrap(ext.dest).bytes), ext.value)
             ELSE Panicked("Unsupported account type; qed")
        ELSE IF ext.pallet = None THEN Err
        ELSE Tx(contract_address(Unwrap(ext.pallet)), 0)

\* extract_transactions from the i-th extrinsic on: the first failure ends it
RECURSIVE extract_transactions(_, _, _)
extract_transactions(block, i, decimals) ==
    IF i > Len(block) THEN Ok(<<>>)
    ELSE LET eth_tx == convert_extrinsic(block[i], i - 1, decimals)
             rest == extract_transactions(block, i + 1, decimals)
         IN  IF eth_tx.tag # "Ok" THEN eth_tx
             ELSE IF rest.tag # "Ok" THEN rest
             ELSE Ok(<<eth_tx.val>> \o rest.val)

\* convert_block: the time of the first timestamp.set, in seconds, then the
\* transactions
convert_block(block, decimals) ==
    LET sets == {i \in 1..Len(block) : block[i].call = "set"}
        first == CHOOSE i \in sets : \A j \in sets : i <= j
        block_transactions == extract_transactions(block, 1, decimals)
    IN  IF sets = {} THEN Panicked("should have timestamp::set")
        ELSE IF block_transactions.tag # "Ok" THEN block_transactions
        ELSE Ok([timestamp |-> block[first].now \div 1000,
                 transactions |-> block_transactions.val])

\* what a request gives its caller: Ok(Some(..)) where the conversion gave a
\* value, its error or its panic otherwise
Converted(result) == IF result.tag = "Ok" THEN Ok(Some(result.val)) ELSE result

\* get_block_by_hash / get_block_by_number for a block that is not cached and
\* that the backend returns
GetBlock(op, block) ==
    /\ rd.pc = "idle"
    /\ LET ret == Converted(convert_block(block, 10))
       IN  rd' = [pc |-> IF ret.tag = "Panic" THEN "panicked" ELSE "done",
                  op |-> op, arg |-> block, ret |-> ret, requests |-> <<>>]
    /\ UNCHANGED notReadVars

\* get_transaction_by_block_and_index for a block that is not cached: the
\* extrinsic whose index is tx_index, converted, or Ok(None)
GetTransactionByBlockAndIndex(block, tx_index) ==
    /\ rd.pc = "idle"
    /\ LET ret == IF tx_index + 1 \in DOMAIN block
                  THEN Converted(convert_extrinsic(block[tx_index + 1], tx_index, 10))
                  ELSE Ok(None)
       IN  rd' = [pc |-> IF ret.tag = "Panic" THEN "panicked" ELSE "done",
                  op |-> "get_transaction_by_block_and_index",
                  arg |-> <<block, tx_index>>, ret |-> ret, requests |-> <<>>]
    /\ UNCHANGED notReadVars

\* the reply to storage().at_latest().fetch_raw(final_key): a value, none, or
\* a failure
FetchReply ==
    /\ rd.pc = "await_fetch"
    /\ \E ret \in {ROk(Some(<<1>>)), ROk(None), RErr("storage")} :
          rd' = [rd EXCEPT !.pc = "done", !.ret = ret]
    /\ UNCHANGED notReadVars

InitRead ==
    /\ cache = with_capacity(1)
    /\ inserted = <<>>
    /\ plain = FALSE
    /\ numSrc = EmptyMap
    /\ IdleGateway
    /\ IdlePallet
    /\ IdleWrite
    /\ IdleSub
    /\ sigTx = <<>>
    /\ sigRes = <<>>
    /\ rd = [pc |-> "idle", op |-> "none", arg |-> <<>>, ret |-> None,
             requests |-> <<>>]

NextRead ==
    \/ \E pallet \in PalletNames : PalletMapping(pallet)
    \/ \E address \in ReadAddresses : GetCode(address)
    \/ \E request \in CallRequests : Call(request)
    \/ \E request \in CallRequests : CallRoot(request)
    \/ \E op \in {"get_block_by_hash", "get_block_by_number"},
          block \in SubstrateBlocks : GetBlock(op, block)
    \/ \E block \in SubstrateBlocks, tx_index \in 0..MaxExt :
          GetTransactionByBlockAndIndex(block, tx_index)
    \/ FetchReply

SpecRead == InitRead /\ [][NextRead]_vars

(***************************************************************************)
(* Claims about the cache alone (under SpecCache).                         *)
(***************************************************************************)

\* C1: FIFO capacity.  For every capacity C accepted by with_capacity and every
\* N > C, after N insert_block calls with pairwise distinct blocks (distinct
\* hashes and numbers) the cache holds exactly C blocks, the last C inserted:
\* get_by_hash and get_by_number return Some(block) for each of the last C and
\* None for every earlier one.
C1_FifoCapacity ==
    (plain /\ Len(inserted) > cache.max_blocks) =>
        LET C == cache.max_blocks
            N == Len(inserted)
        IN  /\ Cardinality(DOMAIN cache.hash_to_block) = C
            /\ \A i \in 1..N :
                  IF i > N - C
                  THEN /\ get_by_hash(cache, inserted[i].hash) = Some(inserted[i])
                       /\ get_by_number(cache, inserted[i].number) = Some(inserted[i])
                  ELSE /\ get_by_hash(cache, inserted[i].hash) = None
                       /\ get_by_number(cache, inserted[i].number) = None

\* C2: after any sequence of insert_block, insert_number_to_hash and clear,
\* get_by_number(n) returns Some(b) if and only if some insert_block of a block
\* with number n has not been evicted and no later insert gave the mapping of n
\* another hash; in particular every Some(b) it returns has number n.
C2_GetByNumber ==
    \A n \in Numbers :
        LET r == get_by_number(cache, n)
        IN  /\ IsSome(r) <=> n \in DOMAIN numSrc
            /\ IsSome(r) => Unwrap(r).number = n

(***************************************************************************)
(* Claims about the cached read path (under SpecGateway).                  *)
(***************************************************************************)

\* C3: the block cache is transparent.  With a backend whose block under a hash
\* never changes while the hash of a height that is not finalized may change,
\* every block that get_block_by_hash(h) or get_block_by_number(Number(n))
\* returns is the block the backend holds for that hash, respectively for that
\* height, at the time of the call (what the uncached gateway would return).
\* Stated for the calls during which the backend's answer did not change.
C3_CacheTransparent ==
    \A p \in Handlers :
        (hs[p].pc = "done" /\ hs[p].ret.tag = "Ok") =>
            /\ hs[p].kind = "hash" => hs[p].ret.val = Some(EthBlock(hs[p].hash))
            /\ (hs[p].kind = "number" /\ hs[p].stable) =>
                  hs[p].ret.val = IF IsSome(chain[hs[p].n])
                                  THEN Some(EthBlock(Unwrap(chain[hs[p].n])))
                                  ELSE None

(***************************************************************************)
(* Claims about the pallet (under SpecPallet and SpecSig).                 *)
(***************************************************************************)

\* C4: in every execution of transact the decoded call is dispatched at most
\* once, only after signer recovery and call decoding both succeeded, and with
\* origin Signed(map_address_to_account(recovered signer)) whatever the outer
\* origin is, never Root; a call that requires Root (force_transfer) is
\* dispatched only to fail, and moves no balance.
C4_DispatchOrigin ==
    exec # <<>> =>
        LET e == exec[1]
            from == verify_and_recover_signer(e.tx)
            call == decode_call(e.tx)
        IN  /\ Len(e.dispatched) <= 1
            /\ \A i \in 1..Len(e.dispatched) :
                  /\ from.ok /\ call.ok
                  /\ e.dispatched[i].call = call.val[1]
                  /\ e.dispatched[i].origin =
                        Signed(map_address_to_account(from.val[1]))
                  /\ e.dispatched[i].origin.kind # "Root"
                  /\ e.dispatched[i].call.call = "force_transfer" =>
                        (~e.result.ok /\ balances = e.before)
            /\ e.result.ok => Len(e.dispatched) = 1

\* C4 happens: a transaction signed by key 1 and sent in by another account was
\* dispatched, once, and succeeded
C4_Witness ==
    /\ exec # <<>>
    /\ exec[1].origin = Signed(RawAccount(1))
    /\ Len(exec[1].dispatched) = 1
    /\ exec[1].result.ok
    /\ exec[1].dispatched[1].origin = Signed(map_address_to_account(keccak_address(1)))

\* C5: the outcome of transact is fixed by the first failing step in the order
\* recovery-id check, signer recovery, call decoding, dispatch: the error is
\* InvalidRecoveryId, SignerRecoveryFailed, CallDecodeFailed or DispatchFailed
\* respectively and the result is Ok only when all four succeed; exactly one
\* event is deposited when dispatch is reached (TransactionExecuted{from, to,
\* hash} on success, TransactionFailed{from, to, error} with DispatchFailed on
\* failure) and none when an earlier step fails.  Stated for the executions
\* with a signed outer origin.
C5_FirstFailingStep ==
    (exec # <<>> /\ exec[1].origin.kind = "Signed") =>
        LET e == exec[1]
            sig == signature(e.tx)
            pubkey == secp256k1_ecdsa_recover(sig.val[1], message_hash(e.tx))
            from == keccak_address(pubkey.val[1])
            call == decode_call(e.tx)
        IN  IF ~sig.ok
            THEN e.result = RErr("InvalidRecoveryId") /\ e.events = <<>>
            ELSE IF ~pubkey.ok
            THEN e.result = RErr("SignerRecoveryFailed") /\ e.events = <<>>
            ELSE IF ~call.ok
            THEN e.result = RErr("CallDecodeFailed") /\ e.events = <<>>
            ELSE \/ /\ e.result = ROk("()")
                    /\ e.events = <<TransactionExecuted(from, e.tx.to, hash(e.tx))>>
                 \/ /\ e.result = RErr("DispatchFailed")
                    /\ Len(e.events) = 1
                    /\ e.events[1].name = "TransactionFailed"
                    /\ e.events[1].from = from
                    /\ e.events[1].to = e.tx.to

\* C6: for every u64 v, signature() succeeds exactly when v is 0, 1, 27 or 28
\* and then returns r || s || v_norm with v_norm = v - 27 for 27 and 28 and
\* v_norm = v for 0 and 1; for every other v it fails, and transact's signer
\* recovery reports InvalidRecoveryId.
C6_SignatureNormalization ==
    sigRes # <<>> =>
        LET tx == sigTx[1]
        IN  IF tx.v \in {0, 1, 27, 28}
            THEN sigRes[1].sig =
                    ROk(<<tx.r, tx.s, IF tx.v >= 27 THEN tx.v - 27 ELSE tx.v>>)
            ELSE /\ ~sigRes[1].sig.ok
                 /\ sigRes[1].signer = RErr("InvalidRecoveryId")

\* C27: message_hash depends only on chain_id, nonce, the two fee fields,
\* gas_limit, to, value and data, while hash depends on every field: a
\* transaction that differs from a signed one only in access_list, or only in
\* v, r, s, has the same message_hash and another hash, and one that differs in
\* a signed field has another message_hash and another hash; altering the
\* access list keeps the recovered signer.
C27_SignedFields ==
    sigRes # <<>> =>
        LET tx == sigTx[1]
            SameMessage(other) ==
                other # tx => /\ message_hash(other) = message_hash(tx)
                              /\ hash(other) # hash(tx)
            OtherMessage(other) ==
                /\ message_hash(other) # message_hash(tx)
                /\ hash(other) # hash(tx)
        IN  /\ \A list \in AccessLists :
                  /\ SameMessage([tx EXCEPT !.access_list = list])
                  /\ verify_and_recover_signer([tx EXCEPT !.access_list = list])
                        = sigRes[1].signer
            /\ \A v \in {0, 1, 27, 28}, r \in {0, 1, 2}, s \in {tx.s, NoMessage} :
                  SameMessage([tx EXCEPT !.v = v, !.r = r, !.s = s])
            /\ OtherMessage([tx EXCEPT !.chain_id = 2])
            /\ OtherMessage([tx EXCEPT !.nonce = 1])
            /\ OtherMessage([tx EXCEPT !.max_priority_fee_per_gas = 1])
            /\ OtherMessage([tx EXCEPT !.max_fee_per_gas = 1])
            /\ OtherMessage([tx EXCEPT !.gas_limit = 21001])
            /\ OtherMessage([tx EXCEPT !.to = contract_address(NameBalances)])
            /\ OtherMessage([tx EXCEPT !.value = 1])
            /\ OtherMessage([tx EXCEPT !.data = AbiTransfer])

\* C27 happens: the signer of a transaction that carries an access list was
\* recovered, and it is the signer of the transaction without the list
C27_Witness ==
    /\ sigRes # <<>>
    /\ sigTx[1].access_list = <<<<Repeat(1, 20), <<7>>>>>>
    /\ sigRes[1].signer = ROk(keccak_address(1))
    /\ verify_and_recover_signer([sigTx[1] EXCEPT !.access_list = <<>>])
          = sigRes[1].signer
    /\ hash([sigTx[1] EXCEPT !.access_list = <<>>]) # hash(sigTx[1])

C7_ToIsInformational ==
    exec # <<>> =>
        \A to \in Tos :
            LET other == [exec[1].tx EXCEPT !.to = to]
            IN  /\ decode_call(other) = decode_call(exec[1].tx)
                /\ decode_call(other) =
                      IF RuntimeCall_decode(other.data).ok
                      THEN RuntimeCall_decode(other.data)
                      ELSE RErr("CallDecodeFailed")

\* C26 as stated: transact keeps no replay state, so a transaction that was
\* accepted once (transact returned Ok) is accepted again, and its call
\* dispatched again, whenever it is executed again with a signed outer origin.
C26_AcceptedAgain ==
    [][(Accepted # {} /\ exec'[1].tx \in Accepted
        /\ exec'[1].origin.kind = "Signed")
       => (exec'[1].result.ok /\ Len(exec'[1].dispatched) = 1)]_vars

\* C26: transact keeps no replay state: a transaction that was accepted once
\* passes signer recovery and call decoding again whenever it is executed
\* again with a signed outer origin, whatever its nonce and chain_id, and its
\* call is dispatched again, with the signer's mapped account as origin; the result is Ok
\* exactly when that dispatch succeeds on the balances of the moment, and
\* DispatchFailed otherwise.
C26_NoReplayState ==
    [][(Accepted # {} /\ exec'[1].tx \in Accepted
        /\ exec'[1].origin.kind = "Signed")
       => LET e == exec'[1]
              from == verify_and_recover_signer(e.tx)
              call == decode_call(e.tx)
              inner == Signed(map_address_to_account(from.val[1]))
          IN  /\ from.ok /\ call.ok
              /\ e.dispatched = <<[origin |-> inner, call |-> call.val[1]]>>
              /\ e.result.ok = dispatch(call.val[1], inner, balances).ok
              /\ e.result \in {ROk("()"), RErr("DispatchFailed")}]_vars

\* C26 happens: the transfer signed by key 1 was accepted a second time, sent
\* in by another account, and the signer's two units are gone
C26_Witness ==
    /\ exec # <<>>
    /\ exec[1].n = 2
    /\ exec[1].origin = Signed(RawAccount(1))
    /\ exec[1].result.ok
    /\ exec[1].tx \in Accepted
    /\ BalanceOf(exec[1].before, map_address_to_account(keccak_address(1))) = 1
    /\ BalanceOf(balances, map_address_to_account(keccak_address(1))) = 0

(***************************************************************************)
(* Claims about the write path (under SpecWrite).                          *)
(***************************************************************************)

\* C8: gateway and pallet agree on the write protocol.  The gateway submits the
\* wrapper extrinsic unsigned, and for such a submission that carries a
\* transaction with a recoverable signature and decodable data the pallet's
\* transact dispatches the decoded call as if the recovered account had signed.
C8_UnsignedSubmissionDispatches ==
    (/\ exec # <<>>
     /\ exec[1].origin = NoneOrigin
     /\ verify_and_recover_signer(exec[1].tx).ok
     /\ RuntimeCall_decode(exec[1].tx.data).ok) =>
        exec[1].dispatched =
            <<[origin |-> Signed(map_address_to_account(
                             verify_and_recover_signer(exec[1].tx).val[1])),
               call |-> RuntimeCall_decode(exec[1].tx.data).val[1]]>>

\* C9: eth_sendRawTransaction wraps and submits.  The bytes handed to
\* author_submitExtrinsic are [6, 0] followed by SCALE(EthereumTransaction),
\* the hash returned is the extrinsic hash the backend replied with, a backend
\* error is propagated as an error, and the block cache is left unchanged.
C9_SendRawTransaction ==
    (wr.pc = "done" /\ wr.api = "eth_sendRawTransaction") =>
        /\ cache = with_capacity(1)
        /\ \/ wr.ret.tag = "Err"
           \/ /\ wr.ret.tag = "Ok"
              /\ wr.call_data = <<6, 0>> \o Encode(wr.tx[1])
              /\ wr.ret.hash = Some(extrinsic_hash(wr.call_data))

(***************************************************************************)
(* Claims about subscriptions (under SpecSub).                             *)
(***************************************************************************)

\* C10: for a newHeads subscription, at every moment the notifications sent to
\* the client's sink are a prefix of the finalized blocks received from the
\* backend stream, in the same order, none duplicated, skipped or reordered,
\* and each notification is {hash of that block, is_new_best: false}.
C10_NotificationsArePrefix ==
    /\ Len(sub.sent) <= Len(sub.yielded)
    /\ \A i \in 1..Len(sub.sent) :
          sub.sent[i] = [hash |-> sub.yielded[i], is_new_best |-> FALSE]

\* C10 happens: two notifications were sent while a third block waits
C10_Witness ==
    /\ sub.kind = "NewHeads"
    /\ Len(sub.sent) = 2
    /\ Len(sub.yielded) = 3

(***************************************************************************)
(* Claims about the cache's maps and queue (under SpecCache).              *)
(***************************************************************************)
\* C21: after an insert_block that evicts (capacity at least 1), every entry
\* of number_to_hash points to a hash that hash_to_block holds.
C21_PurgedAtEviction ==
    [][(/\ cache.max_blocks >= 1
        /\ EvictedBy(cache) # {}
        /\ \E block \in Blocks : cache' = insert_block(cache, block))
       => \A n \in DOMAIN cache'.number_to_hash :
             cache'.number_to_hash[n] \in DOMAIN cache'.hash_to_block]_vars

\* C22: a number_to_hash entry whose hash is cached names a block of that
\* number.
C22_NumberMatchesBlock ==
    \A n \in DOMAIN cache.number_to_hash :
        cache.number_to_hash[n] \in DOMAIN cache.hash_to_block =>
            cache.hash_to_block[cache.number_to_hash[n]].number = n

\* C23: every cached hash occurs in the eviction queue.
C23_CachedHashesAreQueued ==
    DOMAIN cache.hash_to_block \subseteq {cache.order[i] : i \in DOMAIN cache.order}

\* a block was inserted twice and its first queue entry evicted: the queue
\* still holds the hash of a block that is cached no more
C23_Witness ==
    /\ cache.hash_to_block # EmptyMap
    /\ \E i \in DOMAIN cache.order : cache.order[i] \notin DOMAIN cache.hash_to_block

(***************************************************************************)
(* Claims about get_block_by_number and get_block_by_hash (SpecGateway).   *)
(***************************************************************************)
\* C14: get_block_by_number(Latest) returns the block whose number is the
\* latest number k it fetched first, also when the head advances between the
\* backend requests.
C14_LatestIsNumberPath ==
    \A p \in DOMAIN hs :
        (hs[p].pc = "done" /\ hs[p].kind = "latest" /\ hs[p].ret.tag = "Ok") =>
            /\ IsSome(hs[p].ret.val)
            /\ Unwrap(hs[p].ret.val).number = hs[p].n

\* C15: a read answers an absent block with None: the only errors it returns
\* are failed requests to the backend.
C15_AbsentIsNotAnError ==
    \A p \in DOMAIN hs :
        (hs[p].pc = "done" /\ hs[p].ret.tag = "Err") => hs[p].ret = Err

\* C20: a call that returned an error or was cancelled has left the cache as it
\* was.
C20_NoPartialResultCached ==
    \A p \in DOMAIN hs :
        (hs[p].pc = "done" /\ hs[p].ret.tag \in {"Err", "Cancelled"}) =>
            ~hs[p].partial

\* C24: under any interleaving of the handlers (capacity at least 1) the queue
\* and the block map never hold more than max_blocks entries, only a
\* successful insert changes the queue, and it leaves the last max_blocks of
\* the old queue followed by the inserted hash.
C24_QueueUnderConcurrency ==
    /\ [](/\ Len(cache.order) <= cache.max_blocks
          /\ Cardinality(DOMAIN cache.hash_to_block) <= cache.max_blocks)
    /\ [][LET inserting == {p \in DOMAIN hs : /\ hs[p].pc = "await_convert"
                                              /\ hs'[p].pc = "done"
                                              /\ hs'[p].ret.tag = "Ok"}
          IN  IF inserting = {} THEN cache'.order = cache.order
              ELSE \A p \in inserting :
                      LET all == Append(cache.order, hs[p].hash)
                          keep == Min(Len(all), cache.max_blocks)
                      IN  cache'.order = SubSeq(all, Len(all) - keep + 1, Len(all))]_vars

\* both handlers missed on the same hash and both inserted the block
C24_Witness ==
    /\ hs # <<>>
    /\ \E h \in ChainHashes :
          /\ cache.order = <<h, h>>
          /\ \A p \in DOMAIN hs :
                hs[p].pc = "done" /\ hs[p].ret = Ok(Some(EthBlock(h)))

\* C25: a lookup that finds the number's hash or the block in the cache goes on
\* without a request to the backend, a cached block is returned as it is, a
\* miss is fetched, and a block returned after a fetch is in the cache under
\* its hash and its number.
C25_ReadThrough ==
    [][\A p \in DOMAIN hs :
          /\ (/\ hs[p].pc = "hash_by_number" /\ hs'[p].pc # "hash_by_number"
              /\ IsSome(get_hash_by_number(cache, hs[p].n)))
                => hs'[p].pc = "number_to_hash"
          /\ (hs[p].pc = "by_hash" /\ hs'[p].pc # "by_hash") =>
                IF IsSome(get_by_hash(cache, hs[p].hash))
                THEN /\ hs'[p].pc = "done"
                     /\ hs'[p].ret = Ok(get_by_hash(cache, hs[p].hash))
                ELSE hs'[p].pc = "await_block"
          /\ (/\ hs[p].pc = "await_convert" /\ hs'[p].pc = "done"
              /\ hs'[p].ret.tag = "Ok" /\ hs[p].kind \in {"hash", "number"})
                => LET block == Unwrap(hs'[p].ret.val)
                   IN  /\ get_by_hash(cache', block.hash) = Some(block)
                       /\ get_hash_by_number(cache', block.number) = Some(block.hash)
                       /\ block.hash = hs[p].hash]_vars

\* one handler fetched and cached block 1, the other then got it by number
\* from the cache
C25_Witness ==
    /\ hs # <<>>
    /\ hs["h1"].pc = "done" /\ hs["h1"].kind = "hash"
    /\ hs["h1"].ret = Ok(Some(EthBlock(1)))
    /\ hs["h2"].pc = "done" /\ hs["h2"].kind = "number"
    /\ hs["h2"].ret = Ok(Some(EthBlock(1)))
    /\ get_by_number(cache, 1) = Some(EthBlock(1))

(***************************************************************************)
(* Claims about the stateless reads (SpecRead) and the address mapping.    *)
(***************************************************************************)
\* C16 as stated: a pallet name of at most 20 UTF-8 bytes without NUL is what
\* pallet_name gives back for its contract_address.
C16_RoundTrip20Bytes ==
    (/\ rd # <<>> /\ rd.op = "pallet_mapping"
     /\ Len(as_bytes(rd.arg)) <= 20
     /\ \A i \in DOMAIN rd.arg : rd.arg[i] # 0)
        => rd.ret = Some(rd.arg)

\* C16: a pallet name of at most 8 chars and at most 20 UTF-8 bytes, without
\* NUL, is what pallet_name gives back for its contract_address.
C16_RoundTrip8Chars ==
    (/\ rd # <<>> /\ rd.op = "pallet_mapping"
     /\ Len(rd.arg) <= 8
     /\ Len(as_bytes(rd.arg)) <= 20
     /\ \A i \in DOMAIN rd.arg : rd.arg[i] # 0)
        => rd.ret = Some(rd.arg)

\* a name of 8 chars that fills the 20 bytes went round
C16_Witness ==
    /\ rd # <<>> /\ rd.op = "pallet_mapping"
    /\ Len(rd.arg) = 8
    /\ Len(as_bytes(rd.arg)) = 20
    /\ rd.ret = Some(rd.arg)

\* C17: get_code never fails; for the address of a pallet of the runtime it
\* returns the bytes of "revert: <PalletName>", for every other address (the
\* zero address, an account's address) no bytes.
C17_GetCode ==
    (rd # <<>> /\ rd.op = "get_code") =>
        /\ rd.ret.ok
        /\ \A pallet \in DOMAIN Metadata :
              rd.arg = contract_address(pallet) =>
                  Unwrap(rd.ret.val) =
                      <<114, 101, 118, 101, 114, 116, 58, 32>> \o as_bytes(pallet)
        /\ rd.arg \notin {contract_address(pallet) : pallet \in DOMAIN Metadata} =>
              Unwrap(rd.ret.val) = <<>>

FrameHasher(h, k) ==
    CASE h = "Blake2_128" -> <<Part("blake2_128", k)>>
      [] h = "Blake2_256" -> <<Part("blake2_256", k)>>
      [] h = "Blake2_128Concat" -> <<Part("blake2_128", k), Part("raw", k)>>
      [] h = "Twox128" -> <<Part("twox_128", k)>>
      [] h = "Twox256" -> <<Part("twox_256", k)>>
      [] h = "Twox64Concat" -> <<Part("twox_64", k), Part("raw", k)>>
      [] h = "Identity" -> <<Part("raw", k)>>

\* h_1(k_1) || ... || h_r(k_r)
RECURSIVE HashedKeys(_, _, _)
HashedKeys(hashers, keys, r) ==
    IF r = 0 THEN <<>>
    ELSE HashedKeys(hashers, keys, r - 1) \o FrameHasher(hashers[r], keys[r])

\* C29: a call that names a storage entry E of pallet P, with declared hashers
\* h_1..h_m and supplied keys k_1..k_j, fetches the key Twox128(P) ||
\* Twox128(E) || h_1(k_1) || ... || h_r(k_r), r = min(j, m): fewer keys than
\* hashers is no error and gives a prefix key, and a plain entry gives the
\* two-digest prefix alone whatever the keys.
C29_StorageKey ==
    (rd # <<>> /\ rd.op \in {"call", "call_root"}) =>
        \A P \in DOMAIN Metadata :
            (/\ rd.arg.to = Some([kind |-> "Call", dest |-> contract_address(P)])
             /\ Metadata[P] # None
             /\ rd.arg.input # None
             /\ from_slice(Unwrap(rd.arg.input)) # None
             /\ Unwrap(from_slice(Unwrap(rd.arg.input))).name
                    \in DOMAIN Unwrap(Metadata[P]))
            => LET E == Unwrap(from_slice(Unwrap(rd.arg.input))).name
                   keys == Unwrap(from_slice(Unwrap(rd.arg.input))).keys
                   hashers == Unwrap(Metadata[P])[E]
                   r == Min(Len(keys), Len(hashers))
               IN  rd.requests = <<<<Part("twox_128", as_bytes(P)),
                                     Part("twox_128", E)>>
                                   \o HashedKeys(hashers, keys, r)>>

\* C30: the block reads have no fatal condition: for every block the backend
\* returns (extrinsics signed or not, with or without timestamp.set, with or
\* without a nonce extension, any variant of a transfer's destination),
\* get_block_by_number, get_block_by_hash and
\* get_transaction_by_block_and_index end with a value, None or an error value
\* and never panic; an unsigned extrinsic is translated with the zero address
\* as `from` and nonce 0.
C30_NoFatalCondition ==
    rd # <<>> =>
        /\ rd.op \in {"get_block_by_hash", "get_block_by_number",
                      "get_transaction_by_block_and_index"}
              => (rd.pc = "done" /\ rd.ret.tag \in {"Ok", "Err"})
        /\ (rd.op \in {"get_block_by_hash", "get_block_by_number"}
             /\ rd.ret.tag = "Ok")
              => \A i \in DOMAIN rd.arg :
                    rd.arg[i].address = None =>
                        /\ Unwrap(rd.ret.val).transactions[i].from = ZeroAddress
                        /\ Unwrap(rd.ret.val).transactions[i].nonce = 0
        /\ (rd.op = "get_transaction_by_block_and_index"
             /\ rd.ret.tag = "Ok" /\ rd.ret.val # None)
              => (rd.arg[1][rd.arg[2] + 1].address = None
                    => /\ Unwrap(rd.ret.val).from = ZeroAddress
                       /\ Unwrap(rd.ret.val).nonce = 0)

\* C19: the gateway's to_ss58 and the pallet's map_address_to_account are the
\* same function of the address, and the account a transaction's call is
\* dispatched from is the account to_ss58 gives for its signer's address.
C19_SameAccountMapping ==
    /\ \A address \in ReadAddresses \cup Tos :
          to_ss58(address) = map_address_to_account(address)
    /\ exec # <<>> =>
          \A i \in 1..Len(exec[1].dispatched) :
              exec[1].dispatched[i].origin =
                  Signed(to_ss58(verify_and_recover_signer(exec[1].tx).val[1]))

\* a transfer signed by key 1 was paid from the account to_ss58 gives for
\* the key's address
C19_Witness ==
    /\ exec # <<>>
    /\ Len(exec[1].dispatched) = 1
    /\ BalanceOf(balances, to_ss58(keccak_address(1)))
          < BalanceOf(exec[1].before, to_ss58(keccak_address(1)))

(***************************************************************************)
(* Claims about the subscription task's end (under SpecSubLive, SpecSub).  *)
(***************************************************************************)
\* C11: the subscription task stops when either side closes: once it has ended
\* nothing more is sent and it stays ended, nothing is sent after the client
\* closed the sink, and a closed sink or an ended backend stream leads to the
\* task's end, also when the backend never announces another block.
C11_TaskEnds ==
    /\ [][/\ sub.pc = "ended" => sub'.pc = "ended" /\ sub'.sent = sub.sent
          /\ sub.closed => sub'.sent = sub.sent]_vars
    /\ sub.closed ~> sub.pc = "ended"
    /\ (sub.pc = "loop" /\ ~sub.open) ~> sub.pc = "ended"

\* the client closed the sink while the stream was open and empty, and the task ended
C11_Witness ==
    /\ sub.kind = "NewHeads"
    /\ sub.closed
    /\ sub.open
    /\ sub.stream = <<>>
    /\ sub.pc = "ended"
    /\ sub.sent # <<>>

\* C12: an error of the backend's stream reaches the task as exactly one
\* AdapterError "Error in block stream", the task then ends, and no block the
\* backend announced after the error is delivered.
C12_StreamError ==
    /\ Len(sub.errors) <= 1
    /\ \A i \in DOMAIN sub.errors : sub.errors[i] = "Error in block stream"
    /\ sub.errors # <<>> => sub.pc = "ended"
    /\ IsSome(sub.before_error) => Len(sub.sent) <= Unwrap(sub.before_error)

\* the task took the error while a later block was waiting in the stream
C12_Witness ==
    /\ sub.errors # <<>>
    /\ sub.sent # <<>>
    /\ \E i \in DOMAIN sub.stream : IsSome(sub.stream[i])

\* C13: a subscription of a kind other than NewHeads is rejected: its sink is
\* never accepted and no backend subscription is started.
C13_OnlyNewHeads ==
    sub.kind \in SubscriptionKinds \ {"NewHeads"} =>
        sub.pc = "rejected" /\ ~sub.accepted /\ ~sub.open

====
